---- MODULE Spec2Model ----
(***************************************************************************)
(* A model of comfypack's model-path inference engine                      *)
(* (model_path_inference.py) and of its URL cache (model_url_cache.py).    *)
(*                                                                         *)
(* Python values are modelled as follows.  A str is a TLA+ string.  A dict *)
(* whose insertion order is never observed is a function on its key set.   *)
(* A dict whose order IS observed (the per-class folder dict, read with    *)
(* next(iter(...))) is the sequence of its keys in insertion order.  A     *)
(* list is a sequence.  None is the string None where a str is expected    *)
(* and the record NoneInfo where a dict is expected.                       *)
(***************************************************************************)
EXTENDS Integers, Sequences, FiniteSets, TLC

VARIABLES
    tree,                 \* the files under custom_nodes_path, in rglob order
    models_data,          \* the manifest handed to infer_model_paths
    node_class_mappings,  \* self.node_class_mappings  (AliasTable)
    required_node_types,  \* self.required_node_types  (RequiredNodeTypes)
    node_class_folders,   \* self.node_class_folders   (ClassFolderMap)
    result,               \* outcome of the instance's latest infer_model_paths call
    prev_result,          \* outcome of the instance's call before that one
    guess_filename,       \* argument of the _guess_model_folder call
    guess_folder,         \* what that call returned, once it has
    cache_dir,            \* does the directory of cache_file exist
    disk,                 \* content of cache_file
    cache,                \* self.cache of the live ModelURLCache
    cache_log,            \* what the last cache operation logged
    loaded,               \* the mapping the live cache got from _load_cache
    puts,                 \* the put calls made on the live cache, oldest first
    scan_pc,              \* where _analyze_node_classes stands
    scan_tasks,           \* the state of each _analyze_file task, in task order
    scan_done_order,      \* the task indexes in the order the tasks completed
    scan_merged,          \* how many results the merge loop has taken
    visit_module,         \* the syntax tree handed to NodeVisitor.visit
    visit_folders,        \* visitor.class_folders once the visit is over
    workflow_data,        \* the workflow handed to process_workflow
    wf_pc,                \* the yield at which process_workflow is suspended
    wf_stream,            \* the messages process_workflow has yielded
    wf_finished,          \* the steps of process_workflow that have returned
    wf_searched           \* the URLs the find_model_online calls returned

vars == <<tree, models_data, node_class_mappings, required_node_types,
          node_class_folders, result, prev_result, guess_filename,
          guess_folder, cache_dir, disk, cache, cache_log, loaded, puts,
          scan_pc, scan_tasks, scan_done_order, scan_merged,
          visit_module, visit_folders,
          workflow_data, wf_pc, wf_stream, wf_finished, wf_searched>>

inferVars == <<tree, models_data, node_class_mappings, required_node_types,
               node_class_folders, result, prev_result>>
guessVars == <<guess_filename, guess_folder>>
cacheVars == <<cache_dir, disk, cache, cache_log, loaded, puts>>
scanVars == <<scan_pc, scan_tasks, scan_done_order, scan_merged>>
visitVars == <<visit_module, visit_folders>>
wfVars == <<workflow_data, wf_pc, wf_stream, wf_finished, wf_searched>>

(***************************************************************************)
(* Bounds of the model.                                                    *)
(***************************************************************************)
MaxFiles == 2      \* files in the source tree
MaxModels == 1     \* model entries in the manifest
MaxParts == 2      \* fragments a heuristic test filename is built from
MaxPuts == 3       \* put calls on the URL cache

(***************************************************************************)
(* Python helpers.                                                         *)
(***************************************************************************)
None == "None"
NoneInfo == [is_none |-> TRUE]
EmptyDict == <<>>

\* dict.get(key, default)
Get(d, key, default) == IF key \in DOMAIN d THEN d[key] ELSE default

\* dict.update(other)
Update(d, other) ==
    [k \in (DOMAIN d) \cup (DOMAIN other) |->
        IF k \in DOMAIN other THEN other[k] ELSE d[k]]

\* d[key] = value
SetItem(d, key, value) ==
    [k \in (DOMAIN d) \cup {key} |-> IF k = key THEN value ELSE d[k]]

\* truth value of an Optional[str]: None and "" are falsy
Truthy(s) == s # None /\ s # ""

\* `pattern in text` on str
Contains(pattern, text) ==
    \E i \in 1..(Len(text) - Len(pattern) + 1) :
        SubSeq(text, i, i + Len(pattern) - 1) = pattern

LowerChar(c) ==
    CASE c = "A" -> "a" [] c = "B" -> "b" [] c = "C" -> "c" [] c = "D" -> "d"
      [] c = "E" -> "e" [] c = "F" -> "f" [] c = "G" -> "g" [] c = "H" -> "h"
      [] c = "I" -> "i" [] c = "J" -> "j" [] c = "K" -> "k" [] c = "L" -> "l"
      [] c = "M" -> "m" [] c = "N" -> "n" [] c = "O" -> "o" [] c = "P" -> "p"
      [] c = "Q" -> "q" [] c = "R" -> "r" [] c = "S" -> "s" [] c = "T" -> "t"
      [] c = "U" -> "u" [] c = "V" -> "v" [] c = "W" -> "w" [] c = "X" -> "x"
      [] c = "Y" -> "y" [] c = "Z" -> "z" [] OTHER -> c

\* str.lower()
RECURSIVE Lower(_)
Lower(s) ==
    IF Len(s) <= 1 THEN LowerChar(s)
    ELSE Lower(SubSeq(s, 1, Len(s) \div 2))
         \o Lower(SubSeq(s, Len(s) \div 2 + 1, Len(s)))

\* the injective sequences over S of length at most n
RECURSIVE InjSeqs(_, _)
InjSeqs(S, n) ==
    IF n = 0 THEN {<<>>}
    ELSE LET shorter == InjSeqs(S, n - 1)
         IN  shorter \cup
             {Append(s, x) : <<s, x>> \in
                 {p \in shorter \X S : \A i \in 1..Len(p[1]) : p[1][i] # p[2]}}

\* all sequences over S of length at most n
RECURSIVE SeqsUpTo(_, _)
SeqsUpTo(S, n) ==
    IF n = 0 THEN {<<>>}
    ELSE LET shorter == SeqsUpTo(S, n - 1)
         IN  shorter \cup {Append(s, x) : <<s, x>> \in shorter \X S}

(***************************************************************************)
(* Syntax trees (the part of Python's ast the code looks at).              *)
(***************************************************************************)
Name(id) == [kind |-> "Name", id |-> id]
Constant(value) == [kind |-> "Constant", value |-> value]
Attribute(value, attr) == [kind |-> "Attribute", value |-> value, attr |-> attr]
Call(func, args) == [kind |-> "Call", func |-> func, args |-> args]
Dict(keys, values) == [kind |-> "Dict", keys |-> keys, values |-> values]
Assign(targets, value) == [kind |-> "Assign", targets |-> targets, value |-> value]
FunctionDef(name, decorator_list, body) ==
    [kind |-> "FunctionDef", name |-> name,
     decorator_list |-> decorator_list, body |-> body]
ClassDef(name, body) == [kind |-> "ClassDef", name |-> name, body |-> body]
Module(body) == [kind |-> "Module", body |-> body]

\* ast.iter_child_nodes(node), in field order
Children(node) ==
    CASE node.kind = "Module" -> node.body
      [] node.kind = "ClassDef" -> node.body
      [] node.kind = "FunctionDef" -> node.body \o node.decorator_list
      [] node.kind = "Call" -> <<node.func>> \o node.args
      [] node.kind = "Attribute" -> <<node.value>>
      [] node.kind = "Assign" -> node.targets \o <<node.value>>
      [] node.kind = "Dict" -> node.keys \o node.values
      [] OTHER -> <<>>

\* folder_paths.get_filename_list(<literal>)
GetFilenameList(literal) ==
    Call(Attribute(Name("folder_paths"), "get_filename_list"), <<Constant(literal)>>)

\* @classmethod def INPUT_TYPES(cls): ... get_filename_list(l) for l in literals
InputTypes(literals) ==
    FunctionDef("INPUT_TYPES", <<Name("classmethod")>>,
                [i \in 1..Len(literals) |-> GetFilenameList(literals[i])])

(***************************************************************************)
(* Source files.  A file has a path (hidden when a path part starts with   *)
(* "."), may be unreadable, and otherwise has a text: the marker names     *)
(* that occur in it, whether it parses, and its syntax tree.               *)
(***************************************************************************)
File(path, hidden, readable, mentions, syntax_ok, ast) ==
    [path |-> path, hidden |-> hidden, readable |-> readable,
     mentions |-> mentions, syntax_ok |-> syntax_ok, ast |-> ast]

\* NODE_CLASS_MAPPINGS = {<display_name>: <class_name>}
MappingsAssign(display_name, class_name) ==
    Assign(<<Name("NODE_CLASS_MAPPINGS")>>,
           Dict(<<Constant(display_name)>>, <<Name(class_name)>>))

\* class A with INPUT_TYPES asking for "loras", then for "checkpoints"
LoraLoader ==
    File("lora_loader.py", FALSE, TRUE, {"INPUT_TYPES"}, TRUE,
         Module(<<ClassDef("A", <<InputTypes(<<"loras", "checkpoints">>)>>)>>))

\* class A again (asking for "vae"), class B asking for "controlnet", and
\* NODE_CLASS_MAPPINGS = {"MyNode": B}
MultiNodes ==
    File("multi_nodes.py", FALSE, TRUE, {"INPUT_TYPES", "NODE_CLASS_MAPPINGS"}, TRUE,
         Module(<<ClassDef("A", <<InputTypes(<<"vae">>)>>),
                  ClassDef("B", <<InputTypes(<<"controlnet">>)>>),
                  MappingsAssign("MyNode", "B")>>))

\* class A whose folder literal is the empty string
EmptyLiteral ==
    File("empty_literal.py", FALSE, TRUE, {"INPUT_TYPES"}, TRUE,
         Module(<<ClassDef("A", <<InputTypes(<<"">>)>>)>>))

\* a file under a hidden directory: class A asking for "hypernetworks", and
\* NODE_CLASS_MAPPINGS = {"MyNode": A}
HiddenNodes ==
    File(".git/hook.py", TRUE, TRUE, {"INPUT_TYPES", "NODE_CLASS_MAPPINGS"}, TRUE,
         Module(<<ClassDef("A", <<InputTypes(<<"hypernetworks">>)>>),
                  MappingsAssign("MyNode", "A")>>))

\* a file with a syntax error that mentions both markers
Broken ==
    File("broken.py", FALSE, TRUE, {"INPUT_TYPES", "NODE_CLASS_MAPPINGS"}, FALSE,
         Module(<<>>))

\* a file that cannot be read
Unreadable ==
    File("locked.py", FALSE, FALSE, {}, TRUE, Module(<<>>))

FileUniverse ==
    {LoraLoader, MultiNodes, EmptyLiteral, HiddenNodes, Broken, Unreadable}

Trees == InjSeqs(FileUniverse, MaxFiles)

(***************************************************************************)
(* NodeVisitor.  Its state is class_folders (class name -> folder names in *)
(* insertion order) and current_class.                                     *)
(***************************************************************************)
NewVisitor == [class_folders |-> EmptyDict, current_class |-> None]

\* self.class_folders[self.current_class][folder_name] = folder_name
RecordFolder(st, folder_name) ==
    LET c == st.current_class
        old == Get(st.class_folders, c, <<>>)
        new == IF \E i \in 1..Len(old) : old[i] = folder_name
               THEN old ELSE Append(old, folder_name)
    IN  [st EXCEPT !.class_folders = SetItem(st.class_folders, c, new)]

\* the condition of visit_Call
IsGetFilenameList(node) ==
    /\ node.func.kind = "Attribute"
    /\ node.func.value.kind = "Name"
    /\ node.func.value.id = "folder_paths"
    /\ node.func.attr = "get_filename_list"
    /\ Len(node.args) > 0
    /\ node.args[1].kind = "Constant"

\* the concatenation of a sequence of sequences
RECURSIVE Flatten(_)
Flatten(seqs) == IF seqs = <<>> THEN <<>> ELSE Head(seqs) \o Flatten(Tail(seqs))

RECURSIVE VisitOrder(_)

\* NodeVisitor.generic_visit: the nodes self.visit is called on, in order
GenericVisit(node) ==
    Flatten([i \in 1..Len(Children(node)) |-> VisitOrder(Children(node)[i])])

\* NodeVisitor._find_folders_in_method
FindFoldersInMethod(node) == GenericVisit(node)

\* the test on an item of node.body in visit_ClassDef
IsInputTypes(item) ==
    /\ item.kind = "FunctionDef"
    /\ item.name = "INPUT_TYPES"
    /\ \E i \in 1..Len(item.decorator_list) :
          /\ item.decorator_list[i].kind = "Name"
          /\ item.decorator_list[i].id = "classmethod"

\* the loop over node.body in visit_ClassDef
FindFoldersEach(items) ==
    Flatten([i \in 1..Len(items) |->
                IF IsInputTypes(items[i]) THEN FindFoldersInMethod(items[i])
                ELSE <<>>])

\* the nodes that self.visit(node) reaches, in the order it reaches them: the
\* node, for a ClassDef the nodes of its INPUT_TYPES methods, then the
\* node's children
VisitOrder(node) ==
    <<node>>
    \o (IF node.kind = "ClassDef" THEN FindFoldersEach(node.body) ELSE <<>>)
    \o GenericVisit(node)

\* what visit_ClassDef does to the visitor before it descends
visit_ClassDef(node, st) == [st EXCEPT !.current_class = node.name]

\* what visit_Call does to the visitor before it descends
visit_Call(node, st) ==
    IF IsGetFilenameList(node) /\ Truthy(st.current_class)
    THEN RecordFolder(st, node.args[1].value)
    ELSE st

\* the nodes that have a visit_ method of their own
HasVisitMethod(node) == node.kind \in {"ClassDef", "Call"}

\* the visit_ methods applied along a visit order
RECURSIVE VisitEach(_, _)
VisitEach(nodes, st) ==
    IF nodes = <<>> THEN st
    ELSE VisitEach(Tail(nodes),
                   IF Head(nodes).kind = "ClassDef"
                   THEN visit_ClassDef(Head(nodes), st)
                   ELSE visit_Call(Head(nodes), st))

\* visitor.visit(node)
Visit(node, st) == VisitEach(SelectSeq(VisitOrder(node), HasVisitMethod), st)

(***************************************************************************)
(* ModelPathInference: the Class-Mapping Loader.                           *)
(***************************************************************************)
\* ast.walk: breadth first from the nodes of `queue`, that is level by level
RECURSIVE Walk(_)
Walk(queue) ==
    IF queue = <<>> THEN <<>>
    ELSE queue \o Walk(Flatten([i \in 1..Len(queue) |-> Children(queue[i])]))

\* the condition on an ast.walk node in _load_node_class_mappings
IsMappingsAssign(node) ==
    /\ node.kind = "Assign"
    /\ Len(node.targets) = 1
    /\ node.targets[1].kind = "Name"
    /\ node.targets[1].id = "NODE_CLASS_MAPPINGS"
    /\ node.value.kind = "Dict"

\* for key, value in zip(keys, values): record Constant -> Name pairs
RECURSIVE RecordPairs(_, _, _)
RecordPairs(keys, values, mappings) ==
    IF keys = <<>> \/ values = <<>> THEN mappings
    ELSE RecordPairs(Tail(keys), Tail(values),
            IF Head(keys).kind = "Constant" /\ Head(values).kind = "Name"
            THEN SetItem(mappings, Head(keys).value, Head(values).id)
            ELSE mappings)

\* the loop body for the nodes that pass the condition, in ast.walk order
RECURSIVE RecordAssigns(_, _)
RecordAssigns(assigns, mappings) ==
    IF assigns = <<>> THEN mappings
    ELSE RecordAssigns(Tail(assigns),
            RecordPairs(Head(assigns).value.keys, Head(assigns).value.values,
                        mappings))

\* for node in ast.walk(tree): ... on one parsed file
RecordTree(ast, mappings) ==
    RecordAssigns(SelectSeq(Walk(<<ast>>), IsMappingsAssign), mappings)

\* The loop over rglob("*.py") sits inside one try: an exception raised for a
\* file (open fails, ast.parse fails) leaves the loop and is logged.
RECURSIVE LoadFrom(_, _)
LoadFrom(files, mappings) ==
    IF files = <<>> THEN mappings
    ELSE LET f == Head(files) IN
         IF ~f.readable THEN mappings
         ELSE IF "NODE_CLASS_MAPPINGS" \notin f.mentions
              THEN LoadFrom(Tail(files), mappings)
         ELSE IF ~f.syntax_ok THEN mappings
         ELSE LoadFrom(Tail(files), RecordTree(f.ast, mappings))

\* the value of self.node_class_mappings after _load_node_class_mappings
load_node_class_mappings(files, mappings) == LoadFrom(files, mappings)

(***************************************************************************)
(* ModelPathInference: the tree scanner.                                   *)
(***************************************************************************)
\* _find_python_files: no part of the path starts with "."
find_python_files(files) ==
    LET Visible(f) == ~f.hidden IN SelectSeq(files, Visible)

\* _analyze_file: every exception is caught and yields {}
analyze_file(f) ==
    IF ~f.readable THEN EmptyDict
    ELSE IF "INPUT_TYPES" \notin f.mentions THEN EmptyDict
    ELSE IF ~f.syntax_ok THEN EmptyDict
    ELSE Visit(f.ast, NewVisitor).class_folders

\* the stop condition of the merge loop
FoundAll(required, folders) ==
    required # {} /\ \A node_type \in required : node_type \in DOMAIN folders

\* the merge loop of _analyze_node_classes over the gathered results
RECURSIVE MergeResults(_, _, _)
MergeResults(results, required, folders) ==
    IF results = <<>> THEN folders
    ELSE LET merged == Update(folders, Head(results)) IN
         IF FoundAll(required, merged) THEN merged
         ELSE MergeResults(Tail(results), required, merged)

\* asyncio.gather returns the results in the order of the tasks
Gather(python_files) == [i \in 1..Len(python_files) |-> analyze_file(python_files[i])]

\* variant: a file that fails to read or parse aborts the whole scan
analyze_node_classes_abort(files, required, folders) ==
    IF \E i \in 1..Len(find_python_files(files)) :
          LET f == find_python_files(files)[i]
          IN  ~f.readable \/ ("INPUT_TYPES" \in f.mentions /\ ~f.syntax_ok)
    THEN folders
    ELSE MergeResults(Gather(find_python_files(files)), required, folders)

\* the value of self.node_class_folders after _analyze_node_classes
analyze_node_classes(files, required, folders) ==
    MergeResults(Gather(find_python_files(files)), required, folders)

(***************************************************************************)
(* ModelPathInference: the folder heuristic.                               *)
(***************************************************************************)
\* variant: the generic "sd" pattern is tried first
MODEL_PATTERNS_sd_first ==
    << <<"sd", "checkpoints">>, <<"vae", "vae">>, <<"lora", "loras">>,
       <<"embedding", "embeddings">>, <<"checkpoint", "checkpoints">>,
       <<"upscale", "upscale_models">>, <<"controlnet", "controlnet">>,
       <<"clip", "clip">>, <<"hypernetwork", "hypernetworks">>,
       <<"t2i", "checkpoints">> >>

\* MODEL_PATTERNS.items(), in insertion order
MODEL_PATTERNS ==
    << <<"vae", "vae">>, <<"lora", "loras">>, <<"embedding", "embeddings">>,
       <<"checkpoint", "checkpoints">>, <<"upscale", "upscale_models">>,
       <<"controlnet", "controlnet">>, <<"clip", "clip">>,
       <<"hypernetwork", "hypernetworks">>, <<"t2i", "checkpoints">>,
       <<"sd", "checkpoints">> >>

RECURSIVE FirstMatch(_, _)
FirstMatch(items, filename_lower) ==
    IF items = <<>> THEN None
    ELSE IF Contains(Head(items)[1], filename_lower) THEN Head(items)[2]
    ELSE FirstMatch(Tail(items), filename_lower)

\* variant: a filename that matches nothing is taken for a checkpoint
guess_model_folder_default(filename) ==
    IF FirstMatch(MODEL_PATTERNS, Lower(filename)) = None THEN "checkpoints"
    ELSE FirstMatch(MODEL_PATTERNS, Lower(filename))

guess_model_folder(filename) == FirstMatch(MODEL_PATTERNS, Lower(filename))

(***************************************************************************)
(* ModelPathInference: the orchestrator, infer_model_paths.                *)
(***************************************************************************)
\* models_data.get("models", [])
ModelsOf(data) == Get(data, "models", <<>>)

\* display name -> class name: self.node_class_mappings.get(name, name)
ClassOf(mappings, display_name) == Get(mappings, display_name, display_name)

\* the set comprehension that builds required_node_types raises KeyError
RequiredRaises(data) ==
    \E i \in 1..Len(ModelsOf(data)) : "needed_by" \notin DOMAIN ModelsOf(data)[i]

\* the class names of the needed_by entries of the models
RECURSIVE RequiredFrom(_, _)
RequiredFrom(models, mappings) ==
    IF models = <<>> THEN {}
    ELSE {ClassOf(mappings, Head(models).needed_by[j]) :
             j \in 1..Len(Head(models).needed_by)}
         \cup RequiredFrom(Tail(models), mappings)

RequiredNodeTypes(data, mappings) == RequiredFrom(ModelsOf(data), mappings)

ClassInfo(folders, node_type, display_name) ==
    [model_folders |-> folders, source_file |-> "found_in_class_definition",
     node_class |-> node_type, display_name |-> display_name]

GuessInfo(folder) ==
    [model_folders |-> <<folder>>, source_file |-> "guessed_from_filename"]

\* variant: the loop has no break, so the last class found wins
RECURSIVE ClassLookup_last(_, _, _)
ClassLookup_last(needed_by, mappings, class_folders) ==
    IF needed_by = <<>> THEN [inferred_folder |-> None, node_info |-> NoneInfo]
    ELSE LET display_name == needed_by[Len(needed_by)]
             node_type == ClassOf(mappings, display_name)
         IN  IF node_type \in DOMAIN class_folders /\ class_folders[node_type] # <<>>
             THEN [inferred_folder |-> Head(class_folders[node_type]),
                   node_info |-> ClassInfo(class_folders[node_type], node_type,
                                           display_name)]
             ELSE ClassLookup_last(SubSeq(needed_by, 1, Len(needed_by) - 1),
                                   mappings, class_folders)

\* the loop over model["needed_by"]: the first class with a non-empty
\* folder dict gives inferred_folder and node_info
RECURSIVE ClassLookup(_, _, _)
ClassLookup(needed_by, mappings, class_folders) ==
    IF needed_by = <<>> THEN [inferred_folder |-> None, node_info |-> NoneInfo]
    ELSE LET display_name == Head(needed_by)
             node_type == ClassOf(mappings, display_name)
         IN  IF node_type \in DOMAIN class_folders /\ class_folders[node_type] # <<>>
             THEN [inferred_folder |-> Head(class_folders[node_type]),
                   node_info |-> ClassInfo(class_folders[node_type], node_type,
                                           display_name)]
             ELSE ClassLookup(Tail(needed_by), mappings, class_folders)

\* `if not inferred_folder:` -- the fallback to the heuristic is needed
NeedsFallback(inferred_folder) == ~Truthy(inferred_folder)

\* variant: the two tests on inferred_folder are `is None` / `is not None`
InferOne_is_none(model, mappings, class_folders) ==
    LET found == ClassLookup(model.needed_by, mappings, class_folders)
        guessed == guess_model_folder(model.filename)
        fallback == found.inferred_folder = None
        inferred_folder == IF fallback THEN guessed ELSE found.inferred_folder
        node_info == IF fallback /\ guessed # None THEN GuessInfo(guessed)
                     ELSE found.node_info
    IN  [filename |-> model.filename,
         required_by |-> model.needed_by,
         node_info |-> node_info,
         inferred_path |-> IF inferred_folder # None
                           THEN "models/" \o inferred_folder \o "/" \o model.filename
                           ELSE None]

\* the body of the loop over the models: one output record
InferOne(model, mappings, class_folders) ==
    LET found == ClassLookup(model.needed_by, mappings, class_folders)
        guessed == guess_model_folder(model.filename)
        fallback == NeedsFallback(found.inferred_folder)
        inferred_folder == IF fallback THEN guessed ELSE found.inferred_folder
        node_info == IF fallback /\ Truthy(guessed) THEN GuessInfo(guessed)
                     ELSE found.node_info
    IN  [filename |-> model.filename,
         required_by |-> model.needed_by,
         node_info |-> node_info,
         inferred_path |-> IF Truthy(inferred_folder)
                           THEN "models/" \o inferred_folder \o "/" \o model.filename
                           ELSE None]

\* model["filename"] raises KeyError for some model of the loop
LoopRaises(data) ==
    \E i \in 1..Len(ModelsOf(data)) : "filename" \notin DOMAIN ModelsOf(data)[i]

NoResult == [status |-> "none", models |-> <<>>]
Raised == [status |-> "KeyError", models |-> <<>>]
Returned(models) == [status |-> "returned", models |-> models]

\* variant: a model without "filename" ends the loop and the records built
\* so far are returned
InferResult_partial(data, mappings, class_folders) ==
    LET bad == {i \in 1..Len(ModelsOf(data)) : "filename" \notin DOMAIN ModelsOf(data)[i]}
        n == IF bad = {} THEN Len(ModelsOf(data))
             ELSE (CHOOSE i \in bad : \A k \in bad : i <= k) - 1
    IN  Returned([i \in 1..n |-> InferOne(ModelsOf(data)[i], mappings, class_folders)])

\* variant: a model that no node needs gets no record
InferResult_skip_unneeded(data, mappings, class_folders) ==
    IF LoopRaises(data) THEN Raised
    ELSE LET needed == SelectSeq(ModelsOf(data), LAMBDA model : model.needed_by # <<>>)
         IN  Returned([i \in 1..Len(needed) |->
                          InferOne(needed[i], mappings, class_folders)])

\* what the loop over the models leaves: KeyError out of the loop, or result
InferResult(data, mappings, class_folders) ==
    IF LoopRaises(data) THEN Raised
    ELSE Returned([i \in 1..Len(ModelsOf(data)) |->
                      InferOne(ModelsOf(data)[i], mappings, class_folders)])

\* the whole of infer_model_paths on the current instance
InferModelPaths ==
    LET mappings == load_node_class_mappings(tree, node_class_mappings) IN
    /\ node_class_mappings' = mappings
    /\ IF RequiredRaises(models_data)
       THEN /\ result' = Raised
            /\ UNCHANGED <<required_node_types, node_class_folders>>
       ELSE LET required == RequiredNodeTypes(models_data, mappings)
                class_folders == analyze_node_classes(tree, required, node_class_folders)
            IN  /\ required_node_types' = required
                /\ node_class_folders' = class_folders
                /\ result' = InferResult(models_data, mappings, class_folders)
    /\ prev_result' = result
    /\ UNCHANGED <<tree, models_data>>
    /\ UNCHANGED guessVars
    /\ UNCHANGED cacheVars
    /\ UNCHANGED scanVars
    /\ UNCHANGED visitVars
    /\ UNCHANGED wfVars

\* ModelPathInference.__init__: a new instance replaces the current one;
\* result and prev_result are those of the calls on the current instance
NewInstance ==
    /\ node_class_mappings' = EmptyDict
    /\ required_node_types' = {}
    /\ node_class_folders' = EmptyDict
    /\ result' = NoResult
    /\ prev_result' = NoResult
    /\ UNCHANGED <<tree, models_data>>
    /\ UNCHANGED guessVars
    /\ UNCHANGED cacheVars
    /\ UNCHANGED scanVars
    /\ UNCHANGED visitVars
    /\ UNCHANGED wfVars

(***************************************************************************)
(* Manifests.                                                              *)
(***************************************************************************)
DisplayNames == {"MyNode", "A"}
Filenames == {"foo.bin", "my_checkpoint.pt"}

\* needed_by lists: the node types that need a model, each once, in any order
NeededLists == InjSeqs(DisplayNames, Cardinality(DisplayNames))

WellFormedEntries ==
    {[filename |-> f, needed_by |-> n] : f \in Filenames, n \in NeededLists}

\* entries with a required key missing
MalformedEntries == {[filename |-> "foo.bin"], [needed_by |-> <<"A">>]}

Manifests ==
    {[models |-> ms] : ms \in SeqsUpTo(WellFormedEntries \cup MalformedEntries, MaxModels)}
    \cup {[repos |-> <<>>]}

\* guess_folder before _guess_model_folder has returned
NotCalled == "<not called>"

GuessIdle == guess_filename = None /\ guess_folder = NotCalled
CacheIdle ==
    /\ cache_dir = TRUE
    /\ disk = [state |-> "absent", data |-> EmptyDict]
    /\ cache = EmptyDict
    /\ cache_log = ""
    /\ loaded = EmptyDict
    /\ puts = <<>>

\* _analyze_node_classes is not running
ScanIdle ==
    /\ scan_pc = "idle"
    /\ scan_tasks = <<>>
    /\ scan_done_order = <<>>
    /\ scan_merged = 0

\* visit_folders before the visit is over
NotVisited == [visited |-> FALSE]

\* no NodeVisitor is at work
VisitIdle == visit_module = Module(<<>>) /\ visit_folders = NotVisited

\* process_workflow has not been called
EmptyWorkflow == [nodes |-> <<>>, groupNodes |-> <<>>]

WfIdle ==
    /\ workflow_data = EmptyWorkflow
    /\ wf_pc = "idle"
    /\ wf_stream = <<>>
    /\ wf_finished = {}
    /\ wf_searched = <<>>

Init ==
    /\ tree \in Trees
    /\ models_data \in Manifests
    /\ node_class_mappings = EmptyDict
    /\ required_node_types = {}
    /\ node_class_folders = EmptyDict
    /\ result = NoResult
    /\ prev_result = NoResult
    /\ GuessIdle
    /\ CacheIdle
    /\ ScanIdle
    /\ VisitIdle
    /\ WfIdle

Next == InferModelPaths \/ NewInstance

Spec == Init /\ [][Next]_vars

(***************************************************************************)
(* Properties of infer_model_paths.  They are about the state a call       *)
(* leaves: result, and the AliasTable and ClassFolderMap the call used.    *)
(***************************************************************************)
Called == result.status # "none"
HasReturned == result.status = "returned"
ModelIndexes == 1..Len(result.models)
Entry(i) == ModelsOf(models_data)[i]
Record(i) == result.models[i]

PathOf(folder, filename) == "models/" \o folder \o "/" \o filename

\* the classes in the ClassFolderMap that the needed_by entries of model i reach
ResolvedClasses(i) ==
    {c \in {ClassOf(node_class_mappings, Entry(i).needed_by[j]) :
                j \in 1..Len(Entry(i).needed_by)} :
        c \in DOMAIN node_class_folders}

\* the positions in needed_by of model i whose class is in the ClassFolderMap
HitPositions(i) ==
    {j \in 1..Len(Entry(i).needed_by) :
        ClassOf(node_class_mappings, Entry(i).needed_by[j]) \in DOMAIN node_class_folders}

Min(S) == CHOOSE x \in S : \A y \in S : x <= y

FoldersOf(c) == {node_class_folders[c][k] : k \in 1..Len(node_class_folders[c])}

PatternMatches(filename) ==
    \E k \in 1..Len(MODEL_PATTERNS) : Contains(MODEL_PATTERNS[k][1], Lower(filename))

\* C1: Class-derived resolution always takes precedence over the heuristic:
\* for every model with a requiring node type that resolves to a class of the
\* ClassFolderMap, the inferred folder is one of the folders that class
\* declares and node_info.source_file is "found_in_class_definition".
C1_ClassTakesPrecedence ==
    HasReturned =>
        \A i \in ModelIndexes :
            ResolvedClasses(i) # {} =>
                /\ Record(i).node_info # NoneInfo
                /\ Record(i).node_info.source_file = "found_in_class_definition"
                /\ \E c \in ResolvedClasses(i) : \E folder \in FoldersOf(c) :
                      Record(i).inferred_path = PathOf(folder, Entry(i).filename)

\* C2: Two calls of infer_model_paths on the same instance, over an unchanged
\* source tree and an unchanged manifest, yield identical output.
C2_SameInstanceIdempotent ==
    (prev_result.status # "none" /\ Called) => result = prev_result

\* C3: A model none of whose requiring node types resolves to a class of the
\* ClassFolderMap, and whose lower-cased filename contains no heuristic
\* pattern, gets inferred_path = null and node_info = null.
C3_UnresolvedIsNull ==
    HasReturned =>
        \A i \in ModelIndexes :
            (ResolvedClasses(i) = {} /\ ~PatternMatches(Entry(i).filename)) =>
                /\ Record(i).inferred_path = None
                /\ Record(i).node_info = NoneInfo

\* a call returned a record for a model that nothing resolves, out of a
\* source tree that does declare folders
C3_Witness ==
    /\ HasReturned
    /\ DOMAIN node_class_folders # {}
    /\ \E i \in ModelIndexes :
          /\ Entry(i).needed_by # <<>>
          /\ ResolvedClasses(i) = {}
          /\ ~PatternMatches(Entry(i).filename)
          /\ Record(i).inferred_path = None

\* the folder names a path can be built from: those declared by the classes
\* of the ClassFolderMap and those of the heuristic table
CandidateFolders ==
    UNION {FoldersOf(c) : c \in DOMAIN node_class_folders}
        \cup {MODEL_PATTERNS[k][2] : k \in 1..Len(MODEL_PATTERNS)}

\* C4: In every output record inferred_path is null or exactly
\* "models/<folder>/<filename>" with the record's filename and a non-empty
\* folder, also when a class declares the empty string as its folder.
C4_PathForm ==
    HasReturned =>
        \A i \in ModelIndexes :
            \/ Record(i).inferred_path = None
            \/ \E folder \in CandidateFolders :
                  /\ folder # ""
                  /\ Record(i).inferred_path = PathOf(folder, Record(i).filename)

\* a model is required by a class whose first declared folder is the empty
\* string, and still gets a path
C4_Witness ==
    /\ HasReturned
    /\ \E i \in ModelIndexes :
          /\ HitPositions(i) # {}
          /\ LET c == ClassOf(node_class_mappings, Entry(i).needed_by[Min(HitPositions(i))])
             IN  Head(node_class_folders[c]) = ""
          /\ Record(i).inferred_path # None

\* C6: The class-derived folder of a model comes from the first entry of its
\* needed_by list, in the list's order, whose class name (the alias of the
\* display name, or the display name itself) is a key of the ClassFolderMap;
\* later entries are not consulted.  A model required by "MyNode", with the
\* alias "MyNode" -> "B" and B declaring "controlnet", resolves to
\* models/controlnet/<filename>.
C6_FirstNeededByWins ==
    HasReturned =>
        \A i \in ModelIndexes :
            HitPositions(i) # {} =>
                LET j == Min(HitPositions(i))
                    c == ClassOf(node_class_mappings, Entry(i).needed_by[j])
                    folder == Head(node_class_folders[c])
                    info == ClassInfo(node_class_folders[c], c, Entry(i).needed_by[j])
                IN  /\ folder # "" =>
                          /\ Record(i).inferred_path = PathOf(folder, Entry(i).filename)
                          /\ Record(i).node_info = info
                    /\ Record(i).node_info.source_file = "found_in_class_definition"
                          => Record(i).node_info = info

\* a model needed by "MyNode" first and by "A" second, both in the
\* ClassFolderMap, resolved through the alias to B's folder "controlnet"
C6_Witness ==
    /\ HasReturned
    /\ \E i \in ModelIndexes :
          /\ Entry(i).needed_by = <<"MyNode", "A">>
          /\ node_class_mappings = [k \in {"MyNode"} |-> "B"]
          /\ {"A", "B"} \subseteq DOMAIN node_class_folders
          /\ node_class_folders["B"] = <<"controlnet">>
          /\ Record(i).inferred_path = PathOf("controlnet", Entry(i).filename)

\* the call got as far as the tree scan
Scanned == Called /\ ~RequiredRaises(models_data)

\* a file the scanner analyses and whose analysis raises
FailsAnalysis(f) ==
    ~f.hidden /\ (~f.readable \/ ("INPUT_TYPES" \in f.mentions /\ ~f.syntax_ok))

\* a file the scanner analyses and parses
ParsedByScan(f) ==
    ~f.hidden /\ f.readable /\ f.syntax_ok /\ "INPUT_TYPES" \in f.mentions

\* what each file of the tree contributes to the scan, in tree order: the
\* class name -> folders mapping its analysis returns, nothing when the file
\* is not analysed
RECURSIVE Contributions(_)
Contributions(files) ==
    IF files = <<>> THEN <<>>
    ELSE <<IF Head(files).hidden THEN EmptyDict ELSE analyze_file(Head(files))>>
         \o Contributions(Tail(files))

\* a failing file contributed nothing
FailuresAreEmpty(declared) ==
    \A k \in 1..Len(tree) : FailsAnalysis(tree[k]) => declared[k] = EmptyDict

\* every class a file contributed is in the ClassFolderMap, with the folders
\* of the last file that contributed it
AllDeclarationsMerged(declared) ==
    \A k \in 1..Len(tree) : \A c \in DOMAIN declared[k] :
        /\ c \in DOMAIN node_class_folders
        /\ (\A k2 \in (k + 1)..Len(tree) : c \notin DOMAIN declared[k2])
              => node_class_folders[c] = declared[k][c]

\* a failing file comes before a file that contributed classes, all of which
\* are in the ClassFolderMap
LaterFileMerged(declared) ==
    \E k \in 1..Len(tree) : \E k2 \in (k + 1)..Len(tree) :
        /\ FailsAnalysis(tree[k])
        /\ ParsedByScan(tree[k2])
        /\ DOMAIN declared[k2] # {}
        /\ \A c \in DOMAIN declared[k2] : c \in DOMAIN node_class_folders

\* C7: A source file with invalid syntax, or one that cannot be read, does
\* not abort the scan: it contributes nothing, and the folder declarations of
\* every other analysed file are in the final ClassFolderMap, each class with
\* the folders of the last file that declares it, unless the merge stopped
\* early because every required class was covered.
C7_ScanSurvivesBadFile ==
    Scanned =>
        \A declared \in {Contributions(tree)} :
            /\ FailuresAreEmpty(declared)
            /\ ~FoundAll(required_node_types, node_class_folders) =>
                  AllDeclarationsMerged(declared)

\* a file that fails comes before a file that declares folders, and those
\* declarations are in the ClassFolderMap after the scan
C7_Witness ==
    /\ Scanned
    /\ ~FoundAll(required_node_types, node_class_folders)
    /\ \E declared \in {Contributions(tree)} : LaterFileMerged(declared)

\* display name -> class name that the file declares in NODE_CLASS_MAPPINGS
DeclaredAliases(f) ==
    IF "NODE_CLASS_MAPPINGS" \in f.mentions
    THEN RecordTree(f.ast, EmptyDict)
    ELSE EmptyDict

\* C8: A failure while reading or parsing one file is caught per file and
\* does not block the other files: after the loader has run, every alias pair
\* declared in a well-formed file under the tree root is in the AliasTable,
\* whatever the enumeration order.
C8_AliasesOfOtherFilesRecorded ==
    Called =>
        \A k \in 1..Len(tree) :
            (tree[k].readable /\ tree[k].syntax_ok) =>
                \A d \in DOMAIN DeclaredAliases(tree[k]) :
                    d \in DOMAIN node_class_mappings

MissingModels == "models" \notin DOMAIN models_data

EntryMissingKey ==
    \E i \in 1..Len(ModelsOf(models_data)) :
        ~({"filename", "needed_by"} \subseteq DOMAIN ModelsOf(models_data)[i])

\* C9: A manifest missing a required key ("models" at top level, "filename"
\* or "needed_by" in a model entry) makes infer_model_paths raise to the
\* caller: no result is returned.
C9_MalformedManifestIsFatal ==
    Called => ((MissingModels \/ EntryMissingKey) => result.status = "KeyError")

\* C9 as amended: a model entry without "filename" or "needed_by" makes the
\* call raise KeyError and return nothing; a manifest without "models" is
\* taken for an empty list of models and returns {"models": []}.
C9_MissingEntryKeyIsFatal ==
    Called =>
        /\ EntryMissingKey => result = Raised
        /\ MissingModels => result = Returned(<<>>)

\* a call raised on an entry without "filename", after the scan had run
C9_Witness ==
    /\ result = Raised
    /\ required_node_types # {}
    /\ \E i \in 1..Len(ModelsOf(models_data)) :
          "filename" \notin DOMAIN ModelsOf(models_data)[i]

(***************************************************************************)
(* The folder heuristic on its own: _guess_model_folder is called on a     *)
(* filename put together from fragments.                                   *)
(***************************************************************************)
Fragments ==
    {"vae", "LoRA", "Embedding", "checkpoint", "Upscale", "controlnet", "CLIP",
     "hypernetwork", "T2I", "sd", "model_", ".bin"}

RECURSIVE Join(_)
Join(parts) == IF parts = <<>> THEN "" ELSE Head(parts) \o Join(Tail(parts))

GuessInputs ==
    {Join(parts) : parts \in SeqsUpTo(Fragments, MaxParts)}
        \cup {"model_vae_sd.safetensors"}

\* one call of _guess_model_folder, on the filename the behaviour started with
GuessModelFolder ==
    /\ guess_folder = NotCalled
    /\ guess_folder' = guess_model_folder(guess_filename)
    /\ UNCHANGED guess_filename
    /\ UNCHANGED inferVars
    /\ UNCHANGED cacheVars
    /\ UNCHANGED scanVars
    /\ UNCHANGED visitVars
    /\ UNCHANGED wfVars

InferIdle ==
    /\ tree = <<>>
    /\ models_data = [models |-> <<>>]
    /\ node_class_mappings = EmptyDict
    /\ required_node_types = {}
    /\ node_class_folders = EmptyDict
    /\ result = NoResult
    /\ prev_result = NoResult

InitGuess ==
    /\ InferIdle
    /\ CacheIdle
    /\ ScanIdle
    /\ VisitIdle
    /\ WfIdle
    /\ guess_filename \in GuessInputs
    /\ guess_folder = NotCalled

NextGuess == GuessModelFolder

SpecGuess == InitGuess /\ [][NextGuess]_vars

\* the table as the specification gives it
PatternOrder ==
    <<"vae", "lora", "embedding", "checkpoint", "upscale", "controlnet", "clip",
      "hypernetwork", "t2i", "sd">>

FolderOfPattern ==
    [vae |-> "vae", lora |-> "loras", embedding |-> "embeddings",
     checkpoint |-> "checkpoints", upscale |-> "upscale_models",
     controlnet |-> "controlnet", clip |-> "clip",
     hypernetwork |-> "hypernetworks", t2i |-> "checkpoints", sd |-> "checkpoints"]

\* C5: _guess_model_folder returns the folder of the first pattern, in the
\* order vae, lora, embedding, checkpoint, upscale, controlnet, clip,
\* hypernetwork, t2i, sd, that is a substring of the lower-cased filename, and
\* no match when none is; "model_vae_sd.safetensors" resolves to "vae".
C5_FirstPatternWins ==
    guess_folder # NotCalled =>
        LET hits == {k \in 1..Len(PatternOrder) :
                        Contains(PatternOrder[k], Lower(guess_filename))}
        IN  /\ guess_folder = IF hits = {} THEN None
                              ELSE FolderOfPattern[PatternOrder[Min(hits)]]
            /\ guess_filename = "model_vae_sd.safetensors" => guess_folder = "vae"

\* the heuristic was asked about the filename that holds both "vae" and "sd"
C5_Witness ==
    guess_filename = "model_vae_sd.safetensors" /\ guess_folder = "vae"

(***************************************************************************)
(* ModelURLCache.  The cache file is absent, holds a JSON object, or holds *)
(* text that json.load rejects; its directory exists or not.               *)
(***************************************************************************)
CacheFilenames == {"a.safetensors", "b.ckpt"}
CacheUrls == {"https://huggingface.co/x", "https://huggingface.co/y"}

Absent == [state |-> "absent", data |-> EmptyDict]
Corrupt == [state |-> "corrupt", data |-> EmptyDict]

\* json.dump(self.cache, f): the text of the JSON object
json_dump(mapping) == [state |-> "json", data |-> mapping]

\* json.load(f) raises on text that is not JSON
JsonLoadRaises(content) == content.state # "json"

\* json.load(f)
json_load(content) == content.data

\* _load_cache: self.cache after __init__ on a file with this content
load_cache(content) ==
    IF content.state = "absent" THEN EmptyDict
    ELSE IF JsonLoadRaises(content) THEN EmptyDict
    ELSE json_load(content)

\* what _load_cache logs
LoadLog(content) ==
    IF content.state # "absent" /\ JsonLoadRaises(content)
    THEN "Error loading cache" ELSE ""

\* open(self.cache_file, 'w') raises when the directory of the file is missing
OpenForWriteRaises(dir_exists) == ~dir_exists

\* _save_cache: the content of the file after the call
save_cache(mapping, dir_exists, content) ==
    IF OpenForWriteRaises(dir_exists) THEN content ELSE json_dump(mapping)

\* what _save_cache logs
SaveLog(dir_exists) ==
    IF OpenForWriteRaises(dir_exists) THEN "Error saving cache" ELSE ""

\* ModelURLCache.get(model_filename)
get(mapping, model_filename) == Get(mapping, model_filename, None)

\* ModelURLCache(cache_file): a new cache object on the same file
Construct ==
    /\ cache' = load_cache(disk)
    /\ loaded' = load_cache(disk)
    /\ cache_log' = LoadLog(disk)
    /\ puts' = <<>>
    /\ UNCHANGED <<cache_dir, disk>>
    /\ UNCHANGED inferVars
    /\ UNCHANGED guessVars
    /\ UNCHANGED scanVars
    /\ UNCHANGED visitVars
    /\ UNCHANGED wfVars

\* ModelURLCache.put(model_filename, url)
Put ==
    /\ Len(puts) < MaxPuts
    /\ \E model_filename \in CacheFilenames, url \in CacheUrls :
          /\ cache' = SetItem(cache, model_filename, url)
          /\ disk' = save_cache(SetItem(cache, model_filename, url), cache_dir, disk)
          /\ cache_log' = SaveLog(cache_dir)
          /\ puts' = Append(puts, <<model_filename, url>>)
    /\ UNCHANGED <<cache_dir, loaded>>
    /\ UNCHANGED inferVars
    /\ UNCHANGED guessVars
    /\ UNCHANGED scanVars
    /\ UNCHANGED visitVars
    /\ UNCHANGED wfVars

\* CachedRequest.__init__: self.cache_dir.mkdir(parents=True, exist_ok=True)
MkDir ==
    /\ cache_dir' = TRUE
    /\ UNCHANGED <<disk, cache, cache_log, loaded, puts>>
    /\ UNCHANGED inferVars
    /\ UNCHANGED guessVars
    /\ UNCHANGED scanVars
    /\ UNCHANGED visitVars
    /\ UNCHANGED wfVars

\* the mappings a cache file can hold at startup
StoredMappings ==
    {EmptyDict} \cup {[k \in {f} |-> u] : f \in CacheFilenames, u \in CacheUrls}

\* the state after the first ModelURLCache has been constructed
InitCache ==
    /\ InferIdle
    /\ GuessIdle
    /\ ScanIdle
    /\ VisitIdle
    /\ WfIdle
    /\ cache_dir \in BOOLEAN
    /\ disk \in IF cache_dir
                THEN {Absent, Corrupt} \cup {json_dump(m) : m \in StoredMappings}
                ELSE {Absent}
    /\ cache = load_cache(disk)
    /\ loaded = load_cache(disk)
    /\ cache_log = LoadLog(disk)
    /\ puts = <<>>

NextCache == Construct \/ Put \/ MkDir

SpecCache == InitCache /\ [][NextCache]_vars

\* the positions in puts of the puts for a filename
PutsOf(model_filename) == {k \in 1..Len(puts) : puts[k][1] = model_filename}

Max(S) == CHOOSE x \in S : \A y \in S : y <= x

\* the URL of the most recent put for the filename, else the value loaded at
\* startup, else None
LatestUrl(model_filename) ==
    IF PutsOf(model_filename) # {} THEN puts[Max(PutsOf(model_filename))][2]
    ELSE get(loaded, model_filename)

\* C10: After any sequence of puts, get(f) returns the URL of the most recent
\* put(f, .), or the value loaded at startup, or None; and after every put
\* the cache file holds exactly the in-memory mapping, so that a cache
\* constructed later from the file answers every get identically.
C10_FileHoldsCacheAfterPut ==
    /\ \A f \in CacheFilenames : get(cache, f) = LatestUrl(f)
    /\ puts # <<>> =>
          /\ disk = json_dump(cache)
          /\ \A f \in CacheFilenames : get(load_cache(disk), f) = get(cache, f)

(***************************************************************************)
(* _analyze_node_classes step by step: one task per file is handed to the  *)
(* thread pool, the tasks complete in any order, asyncio.gather returns    *)
(* once all have, and the merge loop then takes the results one by one.    *)
(***************************************************************************)
RequiredSets == SUBSET {"A", "B"}

Running == [state |-> "running", result |-> EmptyDict]
Done(class_folders) == [state |-> "done", result |-> class_folders]

\* the loop that creates the tasks: one run_in_executor per python file
ScanDispatch ==
    /\ scan_pc = "idle"
    /\ scan_tasks' = [i \in 1..Len(find_python_files(tree)) |-> Running]
    /\ scan_pc' = "gathering"
    /\ UNCHANGED <<scan_done_order, scan_merged>>
    /\ UNCHANGED inferVars
    /\ UNCHANGED guessVars
    /\ UNCHANGED cacheVars
    /\ UNCHANGED visitVars
    /\ UNCHANGED wfVars

\* a pool thread finishes _analyze_file for one file
TaskCompletes ==
    /\ scan_pc = "gathering"
    /\ \E i \in 1..Len(scan_tasks) :
          /\ scan_tasks[i].state = "running"
          /\ scan_tasks' = [scan_tasks EXCEPT
                               ![i] = Done(analyze_file(find_python_files(tree)[i]))]
          /\ scan_done_order' = Append(scan_done_order, i)
    /\ UNCHANGED <<scan_pc, scan_merged>>
    /\ UNCHANGED inferVars
    /\ UNCHANGED guessVars
    /\ UNCHANGED cacheVars
    /\ UNCHANGED visitVars
    /\ UNCHANGED wfVars

\* variant: the wait ends as soon as one task has completed
GatherReady_first_completed(tasks) ==
    tasks = <<>> \/ \E i \in 1..Len(tasks) : tasks[i].state = "done"

\* await asyncio.gather(*tasks) is over: every task has completed
GatherReady(tasks) == \A i \in 1..Len(tasks) : tasks[i].state = "done"

GatherReturns ==
    /\ scan_pc = "gathering"
    /\ GatherReady(scan_tasks)
    /\ scan_pc' = IF scan_tasks = <<>> THEN "done" ELSE "merging"
    /\ UNCHANGED <<scan_tasks, scan_done_order, scan_merged>>
    /\ UNCHANGED inferVars
    /\ UNCHANGED guessVars
    /\ UNCHANGED cacheVars
    /\ UNCHANGED visitVars
    /\ UNCHANGED wfVars

\* variant: the results come in the order the tasks completed
ResultToMerge_completion_order(n, done_order) ==
    IF n <= Len(done_order) THEN done_order[n] ELSE n

\* the task whose result is the n-th element of `results`: asyncio.gather
\* returns the results in the order of the tasks it was given
ResultToMerge(n, done_order) == n

\* one round of the merge loop
MergeNext ==
    /\ scan_pc = "merging"
    /\ LET k == ResultToMerge(scan_merged + 1, scan_done_order)
           merged == Update(node_class_folders, scan_tasks[k].result)
       IN  /\ node_class_folders' = merged
           /\ scan_merged' = scan_merged + 1
           /\ scan_pc' = IF \/ FoundAll(required_node_types, merged)
                            \/ scan_merged + 1 = Len(scan_tasks)
                         THEN "done" ELSE "merging"
    /\ UNCHANGED <<scan_tasks, scan_done_order>>
    /\ UNCHANGED <<tree, models_data, node_class_mappings, required_node_types,
                   result, prev_result>>
    /\ UNCHANGED guessVars
    /\ UNCHANGED cacheVars
    /\ UNCHANGED visitVars
    /\ UNCHANGED wfVars

\* a new instance is about to scan a tree for some required classes
InitScan ==
    /\ tree \in Trees
    /\ required_node_types \in RequiredSets
    /\ models_data = [models |-> <<>>]
    /\ node_class_mappings = EmptyDict
    /\ node_class_folders = EmptyDict
    /\ result = NoResult
    /\ prev_result = NoResult
    /\ GuessIdle
    /\ CacheIdle
    /\ ScanIdle
    /\ VisitIdle
    /\ WfIdle

NextScan == ScanDispatch \/ TaskCompletes \/ GatherReturns \/ MergeNext

SpecScan == InitScan /\ [][NextScan]_vars

ScanFinished == scan_pc = "done"

\* the result of task k declares folders for class c
Declares(k, c) == c \in DOMAIN scan_tasks[k].result

\* C11: When two files declare folders for the same class, the entry that
\* remains in the ClassFolderMap is the one merged last, and the results are
\* merged in the order in which the tasks complete: after a scan that merged
\* every result, each class has the folders of the file that completed last
\* among the files declaring it.
C11_LastCompletedWins ==
    (ScanFinished /\ scan_merged = Len(scan_tasks)) =>
        \A c \in DOMAIN node_class_folders :
            LET positions == {n \in 1..Len(scan_done_order) :
                                 Declares(scan_done_order[n], c)}
            IN  /\ positions # {}
                /\ node_class_folders[c] =
                       scan_tasks[scan_done_order[Max(positions)]].result[c]

\* C11 as amended: the entry that remains is the one merged last, and the
\* results are merged in the order of the tasks, which is the order the
\* files were enumerated in: each class has the folders of the last merged
\* file, in that order, that declares it, and the final ClassFolderMap is
\* the same whatever order the tasks completed in.
C11_LastEnumeratedWins ==
    ScanFinished =>
        /\ \A c \in DOMAIN node_class_folders :
              LET tasks == {k \in 1..scan_merged : Declares(k, c)}
              IN  /\ tasks # {}
                  /\ node_class_folders[c] = scan_tasks[Max(tasks)].result[c]
        /\ \A k \in 1..scan_merged : \A c \in DOMAIN scan_tasks[k].result :
              c \in DOMAIN node_class_folders
        /\ node_class_folders =
              analyze_node_classes(tree, required_node_types, EmptyDict)

\* two files declare class A with different folders, the second one's task
\* completed first, and A has the second file's folders
C11_Witness ==
    /\ ScanFinished
    /\ scan_merged = 2
    /\ scan_done_order[1] = 2
    /\ Declares(1, "A") /\ Declares(2, "A")
    /\ scan_tasks[1].result["A"] # scan_tasks[2].result["A"]
    /\ node_class_folders["A"] = scan_tasks[2].result["A"]

\* C13: Every enumerated file is dispatched and its task runs to completion
\* before the first result is merged; no task is cancelled or skipped,
\* whatever the required classes are and whether or not the merge stops
\* early.
C13_AllTasksDoneBeforeMerge ==
    /\ scan_pc # "idle" => Len(scan_tasks) = Len(find_python_files(tree))
    /\ \A i \in 1..Len(scan_tasks) : scan_tasks[i].state \in {"running", "done"}
    /\ (scan_pc \in {"merging", "done"} \/ scan_merged > 0) =>
          \A i \in 1..Len(scan_tasks) : scan_tasks[i].state = "done"

\* the merge stopped early, after the first of several results, and the
\* tasks of the files it did not merge had completed all the same
C13_Witness ==
    /\ ScanFinished
    /\ scan_merged = 1
    /\ Len(scan_tasks) > 1
    /\ \A i \in 1..Len(scan_tasks) : scan_tasks[i].state = "done"

(***************************************************************************)
(* More properties of infer_model_paths.                                   *)
(***************************************************************************)
\* every result merged, with no early exit
RECURSIVE MergeAll(_, _)
MergeAll(results, folders) ==
    IF results = <<>> THEN folders
    ELSE MergeAll(Tail(results), Update(folders, Head(results)))

\* the call that returned was the first one on its instance
FirstCallReturned == HasReturned /\ prev_result = NoResult

\* C12: Stopping the merge as soon as the ClassFolderMap covers every
\* required class does not change the output: the records of the first call
\* on an instance are those the call would give had every file's result been
\* merged.
C12_EarlyStopKeepsOutput ==
    FirstCallReturned =>
        \A declared \in {Contributions(tree)} :
            result = InferResult(models_data, node_class_mappings,
                                 MergeAll(declared, EmptyDict))

(***************************************************************************)
(* The NodeVisitor on its own: one visit of a module put together from     *)
(* class definitions and module-level statements.                          *)
(***************************************************************************)
MaxBody == 2       \* statements in a visited module

ClassNames == {"A", "B"}
FolderLiterals == {"loras", "vae"}

\* FILES = folder_paths.get_filename_list(<literal>), at module level
ModuleLevelCall(literal) == Assign(<<Name("FILES")>>, GetFilenameList(literal))

\* class A whose call sits in a plain method, not in INPUT_TYPES
HelperClass ==
    ClassDef("A", <<FunctionDef("helper", <<>>, <<GetFilenameList("vae")>>)>>)

Statements ==
    {ClassDef(c, <<InputTypes(<<l>>)>>) : c \in ClassNames, l \in FolderLiterals}
        \cup {ModuleLevelCall(l) : l \in FolderLiterals}
        \cup {HelperClass}

VisitInputs == {Module(body) : body \in SeqsUpTo(Statements, MaxBody)}

\* visitor = NodeVisitor(file_path); visitor.visit(tree)
VisitModule ==
    /\ visit_folders = NotVisited
    /\ visit_folders' = Visit(visit_module, NewVisitor).class_folders
    /\ UNCHANGED visit_module
    /\ UNCHANGED inferVars
    /\ UNCHANGED guessVars
    /\ UNCHANGED cacheVars
    /\ UNCHANGED scanVars
    /\ UNCHANGED wfVars

InitVisit ==
    /\ InferIdle
    /\ GuessIdle
    /\ CacheIdle
    /\ ScanIdle
    /\ WfIdle
    /\ visit_module \in VisitInputs
    /\ visit_folders = NotVisited

NextVisit == VisitModule

SpecVisit == InitVisit /\ [][NextVisit]_vars

Visited == visit_folders # NotVisited

\* the literals of the get_filename_list calls that lie inside a class
\* definition of the visited module named c
EnclosedLiterals(c) ==
    UNION {{n.args[1].value :
                n \in {m \in {walked[j] : j \in 1..Len(walked)} :
                          m.kind = "Call"}} :
           walked \in {Walk(<<visit_module.body[i]>>) :
                          i \in {k \in 1..Len(visit_module.body) :
                                    /\ visit_module.body[k].kind = "ClassDef"
                                    /\ visit_module.body[k].name = c}}}

\* C14: The visitor records a get_filename_list(<literal>) call as a folder
\* requirement only of the class definition that encloses the call; a call
\* with no enclosing class, such as a module-level call after a class
\* definition has ended, is recorded for no class.
C14_OnlyEnclosingClass ==
    Visited =>
        \A c \in DOMAIN visit_folders :
            \A k \in 1..Len(visit_folders[c]) :
                visit_folders[c][k] \in EnclosedLiterals(c)

\* C15: infer_model_paths builds one record per manifest entry and copies the
\* entry's needed_by into required_by unchanged, so a record's required_by is
\* empty exactly when the entry's needed_by is empty; an entry that no node
\* needs is accepted and still gets its record.
C15_RequiredByIsNeededBy ==
    HasReturned =>
        /\ Len(result.models) = Len(ModelsOf(models_data))
        /\ \A i \in ModelIndexes :
              /\ Record(i).required_by = Entry(i).needed_by
              /\ (Record(i).required_by = <<>>) <=> (Entry(i).needed_by = <<>>)

\* C15 as stated: no record of the output has an empty required_by
C15_RequiredByNonEmpty ==
    HasReturned => \A i \in ModelIndexes : Record(i).required_by # <<>>

C15_Witness ==
    /\ HasReturned
    /\ \E i \in ModelIndexes :
          /\ Entry(i).needed_by = <<>>
          /\ Record(i).required_by = <<>>

\* the keys of node_info.model_folders of record i
InfoFolders(i) ==
    {Record(i).node_info.model_folders[k] :
        k \in 1..Len(Record(i).node_info.model_folders)}

\* C16: In every output record of infer_model_paths node_info is null
\* exactly when inferred_path is null, and when both are non-null the folder
\* segment of inferred_path is a key of node_info.model_folders.
C16_InfoAndPathAgree ==
    HasReturned =>
        \A i \in ModelIndexes :
            /\ (Record(i).node_info = NoneInfo) <=> (Record(i).inferred_path = None)
            /\ (Record(i).node_info # NoneInfo /\ Record(i).inferred_path # None) =>
                  \E folder \in InfoFolders(i) :
                      Record(i).inferred_path = PathOf(folder, Record(i).filename)

(***************************************************************************)
(* process_workflow: the generator behind the progress stream.  Each       *)
(* action runs it from one yield to the next.  transformed_data is         *)
(* models_data, and after transformed_data.update(model_paths) its models  *)
(* are those of result.                                                    *)
(***************************************************************************)
MaxNodes == 2      \* nodes in a workflow

\* the node types of the workflows, in sorted order
NodeTypes == <<"A", "MyNode">>

\* widgets_values of a node: at most one of the values names a model file
WidgetValues == {<<>>, <<"foo.bin">>, <<"my_checkpoint.pt">>, <<"euler", "foo.bin">>}

WorkflowNode(type, widgets_values) ==
    [type |-> type, widgets_values |-> widgets_values]

\* a node without "type"
UntypedNode == [widgets_values |-> <<>>]

WorkflowNodes ==
    {WorkflowNode(NodeTypes[t], w) : t \in 1..Len(NodeTypes), w \in WidgetValues}
        \cup {UntypedNode}

\* workflow_data["extra"]["groupNodes"]: none, or the group MyNode
GroupNodes ==
    {<<>>,
     <<[name |-> "MyNode",
        nodes |-> <<WorkflowNode("A", <<"my_checkpoint.pt">>)>>]>>}

Workflows ==
    {[nodes |-> nodes, groupNodes |-> groups] :
        nodes \in SeqsUpTo(WorkflowNodes, MaxNodes), groups \in GroupNodes}

\* channel_manager.get_repo_from_node_type
get_repo_from_node_type(node_type) ==
    IF node_type = "MyNode" THEN "https://github.com/example/my-nodes" ELSE None

model_extensions == <<".safetensors", ".pt", ".pth", ".onnx", ".bin", ".ckpt">>

\* str.endswith
EndsWith(text, suffix) ==
    /\ Len(suffix) <= Len(text)
    /\ SubSeq(text, Len(text) - Len(suffix) + 1, Len(text)) = suffix

IsModelFile(value) ==
    \E k \in 1..Len(model_extensions) : EndsWith(Lower(value), model_extensions[k])

\* a sequence without its repetitions, each element where it first occurs
Distinct(seq) ==
    LET keep == {i \in 1..Len(seq) : \A j \in 1..(i - 1) : seq[j] # seq[i]}
    IN  [k \in 1..Cardinality(keep) |->
            seq[CHOOSE i \in keep : Cardinality({j \in keep : j <= i}) = k]]

\* sorted(list(set(...))) of node types
SortedTypes(types) == SelectSeq(NodeTypes, LAMBDA t : t \in types)

extract_models_from_node(node) == Distinct(SelectSeq(node.widgets_values, IsModelFile))

\* all_nodes of extract_nodes
AllNodes(data) ==
    data.nodes \o Flatten([g \in 1..Len(data.groupNodes) |-> data.groupNodes[g].nodes])

\* node["type"] raises KeyError
ExtractRaises(data) ==
    \E i \in 1..Len(AllNodes(data)) : "type" \notin DOMAIN AllNodes(data)[i]

extract_nodes(data) ==
    LET group_node_types == {data.groupNodes[g].name : g \in 1..Len(data.groupNodes)}
        kept == SelectSeq(AllNodes(data), LAMBDA node : node.type \notin group_node_types)
        results == [i \in 1..Len(kept) |->
                       [type |-> kept[i].type,
                        model |-> extract_models_from_node(kept[i]),
                        repo |-> get_repo_from_node_type(kept[i].type)]]
    IN  Flatten([t \in 1..Len(NodeTypes) |->
                    SelectSeq(results, LAMBDA r : r.type = NodeTypes[t])])

transform_nodes_data(nodes) ==
    LET types(P(_)) == {nodes[i].type : i \in {j \in 1..Len(nodes) : P(nodes[j])}}
        repos == Distinct(SelectSeq([i \in 1..Len(nodes) |-> nodes[i].repo], Truthy))
        models == Distinct(Flatten([i \in 1..Len(nodes) |-> nodes[i].model]))
    IN  [node_types |-> SortedTypes(types(LAMBDA n : TRUE)),
         unmapped_nodes |-> SortedTypes(types(LAMBDA n : n.repo = None)),
         repos |-> [k \in 1..Len(repos) |->
                       [url |-> repos[k],
                        needed_by |-> SortedTypes(types(LAMBDA n : n.repo = repos[k]))]],
         models |-> [k \in 1..Len(models) |->
                        [filename |-> models[k],
                         needed_by |-> SortedTypes(types(LAMBDA n :
                             \E m \in 1..Len(n.model) : n.model[m] = models[k]))]]]

\* the messages of the stream
StatusMessage(status) == [status |-> status]
SearchingMessage(i, total_models, filename) ==
    [status |-> "searching", i |-> i, total_models |-> total_models,
     filename |-> filename]
CompleteMessage(summary) == [status |-> "complete", data |-> summary]
ErrorMessage(e) == [status |-> "error", message |-> e]

\* the summary of the final message
Summary(data, models, urls) ==
    [custom_nodes |->
         SelectSeq([k \in 1..Len(data.repos) |-> data.repos[k].url],
                   LAMBDA url : url # "https://github.com/comfyanonymous/ComfyUI"),
     models |-> [i \in 1..Len(models) |->
                    [url |-> urls[i], filepath |-> models[i].inferred_path]]]

\* variant: the handler logs the exception and yields nothing
OnException_silent(stream, e) == stream

\* except Exception as e: yield the error message
OnException(stream, e) == Append(stream, ErrorMessage(e))

\* the loop over transformed_data["models"] has no model left
SearchLoopOver(models, urls) == Len(urls) = Len(models)

\* what the generator yields next once urls are known for the first models:
\* the searching message of the next model or, the loop over, the summary
NextYield(stream, data, models, urls) ==
    IF SearchLoopOver(models, urls)
    THEN Append(stream, CompleteMessage(Summary(data, models, urls)))
    ELSE Append(stream, SearchingMessage(Len(urls) + 1, Len(models),
                                         models[Len(urls) + 1].filename))

NextPc(models, urls) ==
    IF SearchLoopOver(models, urls) THEN "complete" ELSE "searching"

\* the first yield
Start ==
    /\ wf_pc = "idle"
    /\ wf_stream' = Append(wf_stream, StatusMessage("extracting"))
    /\ wf_pc' = "extracting"
    /\ UNCHANGED <<workflow_data, wf_finished, wf_searched>>
    /\ UNCHANGED inferVars
    /\ UNCHANGED guessVars
    /\ UNCHANGED cacheVars
    /\ UNCHANGED scanVars
    /\ UNCHANGED visitVars

\* extract_nodes and transform_nodes_data, up to the cloning message
ExtractStep ==
    /\ wf_pc = "extracting"
    /\ IF ExtractRaises(workflow_data)
       THEN /\ wf_stream' = OnException(wf_stream, "'type'")
            /\ wf_pc' = "error"
            /\ UNCHANGED <<models_data, wf_finished>>
       ELSE /\ models_data' = transform_nodes_data(extract_nodes(workflow_data))
            /\ wf_finished' = wf_finished \cup {"extract"}
            /\ wf_stream' = Append(wf_stream, StatusMessage("cloning"))
            /\ wf_pc' = "cloning"
    /\ UNCHANGED <<workflow_data, wf_searched>>
    /\ UNCHANGED <<tree, node_class_mappings, required_node_types,
                   node_class_folders, result, prev_result>>
    /\ UNCHANGED guessVars
    /\ UNCHANGED cacheVars
    /\ UNCHANGED scanVars
    /\ UNCHANGED visitVars

\* clone_repos, which returns or raises (mkdir or git cannot run), up to the
\* inferring message
CloneStep ==
    /\ wf_pc = "cloning"
    /\ \E raises \in BOOLEAN :
          IF raises
          THEN /\ wf_stream' = OnException(wf_stream, "[Errno 2] No such file or directory: 'git'")
               /\ wf_pc' = "error"
               /\ UNCHANGED wf_finished
          ELSE /\ wf_finished' = wf_finished \cup {"clone"}
               /\ wf_stream' = Append(wf_stream, StatusMessage("inferring"))
               /\ wf_pc' = "inferring"
    /\ UNCHANGED <<workflow_data, wf_searched>>
    /\ UNCHANGED inferVars
    /\ UNCHANGED guessVars
    /\ UNCHANGED cacheVars
    /\ UNCHANGED scanVars
    /\ UNCHANGED visitVars

\* infer_model_paths on a new ModelPathInference, up to the first searching
\* message, or to the final message when there is no model
InferStep ==
    /\ wf_pc = "inferring"
    /\ LET mappings == load_node_class_mappings(tree, EmptyDict)
           raises == RequiredRaises(models_data) \/ LoopRaises(models_data)
           required == RequiredNodeTypes(models_data, mappings)
           class_folders == analyze_node_classes(tree, required, EmptyDict)
           model_paths == InferResult(models_data, mappings, class_folders)
       IN  /\ node_class_mappings' = mappings
           /\ prev_result' = NoResult
           /\ IF raises
              THEN /\ result' = Raised
                   /\ wf_stream' = OnException(wf_stream, "'needed_by'")
                   /\ wf_pc' = "error"
                   /\ UNCHANGED <<required_node_types, node_class_folders,
                                  wf_finished>>
              ELSE /\ required_node_types' = required
                   /\ node_class_folders' = class_folders
                   /\ result' = model_paths
                   /\ wf_finished' = wf_finished \cup {"infer"}
                   /\ wf_stream' = NextYield(wf_stream, models_data,
                                             model_paths.models, <<>>)
                   /\ wf_pc' = NextPc(model_paths.models, <<>>)
    /\ UNCHANGED <<tree, models_data>>
    /\ UNCHANGED <<workflow_data, wf_searched>>
    /\ UNCHANGED guessVars
    /\ UNCHANGED cacheVars
    /\ UNCHANGED scanVars
    /\ UNCHANGED visitVars

\* the URL a web search can come back with
SearchUrl == "https://huggingface.co/x"

\* find_model_online for the model of the last searching message: the cached
\* URL or, failing that, what the web search gives (None when there is no
\* page, no link, or the search raised); a URL found is put in the cache.
\* Then the next message.
SearchStep ==
    /\ wf_pc = "searching"
    /\ LET filename == result.models[Len(wf_searched) + 1].filename
           cached_url == get(cache, filename)
       IN  \E found \in {None, SearchUrl} :
              LET url == IF Truthy(cached_url) THEN cached_url ELSE found
                  urls == Append(wf_searched, url)
              IN  /\ IF Truthy(cached_url) \/ found = None
                     THEN UNCHANGED <<cache, disk, cache_log, puts>>
                     ELSE /\ cache' = SetItem(cache, filename, url)
                          /\ disk' = save_cache(SetItem(cache, filename, url),
                                                cache_dir, disk)
                          /\ cache_log' = SaveLog(cache_dir)
                          /\ puts' = Append(puts, <<filename, url>>)
                  /\ wf_searched' = urls
                  /\ wf_stream' = NextYield(wf_stream, models_data, result.models, urls)
                  /\ wf_pc' = NextPc(result.models, urls)
    /\ UNCHANGED <<workflow_data, wf_finished>>
    /\ UNCHANGED <<cache_dir, loaded>>
    /\ UNCHANGED inferVars
    /\ UNCHANGED guessVars
    /\ UNCHANGED scanVars
    /\ UNCHANGED visitVars

\* resumed after the final or the error message, the generator returns
Finish ==
    /\ wf_pc \in {"complete", "error"}
    /\ wf_pc' = "closed"
    /\ UNCHANGED <<workflow_data, wf_stream, wf_finished, wf_searched>>
    /\ UNCHANGED inferVars
    /\ UNCHANGED guessVars
    /\ UNCHANGED cacheVars
    /\ UNCHANGED scanVars
    /\ UNCHANGED visitVars

\* custom_nodes as the inference finds it
WfTrees == {<<>>, <<MultiNodes>>}

\* the URL cache of the model finder at the time of the upload
WfCaches == {EmptyDict, [f \in {"foo.bin"} |-> "https://huggingface.co/y"]}

InitWorkflow ==
    /\ GuessIdle
    /\ ScanIdle
    /\ VisitIdle
    /\ tree \in WfTrees
    /\ models_data = [models |-> <<>>]
    /\ node_class_mappings = EmptyDict
    /\ required_node_types = {}
    /\ node_class_folders = EmptyDict
    /\ result = NoResult
    /\ prev_result = NoResult
    /\ cache_dir = TRUE
    /\ cache \in WfCaches
    /\ loaded = cache
    /\ disk = IF cache = EmptyDict THEN Absent ELSE json_dump(cache)
    /\ cache_log = ""
    /\ puts = <<>>
    /\ workflow_data \in Workflows
    /\ wf_pc = "idle"
    /\ wf_stream = <<>>
    /\ wf_finished = {}
    /\ wf_searched = <<>>

NextWorkflow ==
    Start \/ ExtractStep \/ CloneStep \/ InferStep \/ SearchStep \/ Finish

\* the consumer reads the stream to its end, and every awaited call returns
\* or raises
SpecWorkflow == InitWorkflow /\ [][NextWorkflow]_vars

IsTerminal(message) == message.status \in {"complete", "error"}

\* the positions of the terminal messages in the stream
Terminals == {k \in 1..Len(wf_stream) : IsTerminal(wf_stream[k])}

\* the progress messages of the stream, in order
ProgressPart == SelectSeq(wf_stream, LAMBDA message : ~IsTerminal(message))

FirstStatuses == <<"extracting", "cloning", "inferring">>

\* the models of the manifest transform_nodes_data built, in order
ManifestModels == ModelsOf(models_data)

AllStepsFinished ==
    /\ {"extract", "clone", "infer"} \subseteq wf_finished
    /\ Len(wf_searched) = Len(ManifestModels)

\* a generator that has not returned can be resumed: it is at a yield from
\* which the code goes on, the one of a searching message having its model
Resumable ==
    wf_pc = "searching" =>
        /\ Len(wf_searched) < Len(result.models)
        /\ wf_stream[Len(wf_stream)].filename =
               result.models[Len(wf_searched) + 1].filename

\* C17: The progress stream of process_workflow carries the statuses
\* extracting, cloning, inferring, then one searching message per model in
\* manifest order, and ends with exactly one terminal message: complete,
\* sent only after cloning, path inference and the search of every model
\* have finished, or a single error message when a step raised; no message
\* follows the terminal one, and the generator returns only after it.
C17_ProgressStream ==
    /\ \A k \in Terminals : k = Len(wf_stream)
    /\ \A k \in 1..Len(ProgressPart) :
          /\ ProgressPart[k] = wf_stream[k]
          /\ IF k <= Len(FirstStatuses)
             THEN ProgressPart[k] = StatusMessage(FirstStatuses[k])
             ELSE /\ k - Len(FirstStatuses) <= Len(ManifestModels)
                  /\ ProgressPart[k].status = "searching"
                  /\ ProgressPart[k].filename =
                         ManifestModels[k - Len(FirstStatuses)].filename
    /\ \A k \in Terminals :
          wf_stream[k].status = "complete" =>
              /\ AllStepsFinished
              /\ Len(ProgressPart) = Len(FirstStatuses) + Len(ManifestModels)
    /\ wf_pc \in {"complete", "error", "closed"} =>
          /\ Cardinality(Terminals) = 1
          /\ wf_stream[Len(wf_stream)].status =
                 IF AllStepsFinished THEN "complete" ELSE "error"
    /\ wf_pc \notin {"complete", "error", "closed"} => Terminals = {}
    /\ Resumable

\* a stream that ended with complete after two searching messages
C17_Witness ==
    /\ wf_pc = "closed"
    /\ Len(ManifestModels) = 2
    /\ Len(wf_stream) = 6
    /\ wf_stream[4].status = "searching"
    /\ wf_stream[5].status = "searching"
    /\ wf_stream[6].status = "complete"

\* a stream that ended with error after the cloning message
C17_ErrorWitness ==
    /\ wf_pc = "closed"
    /\ Len(wf_stream) = 3
    /\ wf_stream[3].status = "error"
====
